---------------------------- MODULE Spec2Model ----------------------------
(* A model of SudokuCore (src/script.js): the constraint check isValid, the *)
(* backtracking solve in its deterministic and randomized modes, the        *)
(* solution counter countSolutions, and the hole-digging generatePuzzle.    *)
(*                                                                          *)
(* A board is a function row -> col -> cell over 0..SIZE-1, a cell being    *)
(* EMPTY or one of LETTERS.  Math.random is modelled by nondeterminism:     *)
(* an operator that draws random numbers yields the set of all outcomes.    *)
EXTENDS Integers, Sequences, FiniteSets, TLC

LETTERS == <<"H", "O", "L", "A">>
EMPTY == ""
SIZE == 4
BLOCK_SIZE == 2

Letters == {LETTERS[k] : k \in 1..Len(LETTERS)}
Idx == 0..(SIZE - 1)
Cells == 0..(SIZE * SIZE - 1)
NONE == -1

(* board[row][col] = val, and the array literal of SIZE rows of EMPTY *)
Place(board, row, col, val) == [board EXCEPT ![row][col] = val]
EmptyBoard == [r \in Idx |-> [c \in Idx |-> EMPTY]]

(***************************************************************************)
(* What the claims speak of, stated without the code's operators.          *)
(***************************************************************************)
CellOf(board, p) == board[p \div SIZE][p % SIZE]

Rows == {{r * SIZE + c : c \in Idx} : r \in Idx}
Cols == {{r * SIZE + c : r \in Idx} : c \in Idx}
Blocks ==
    {{(br * BLOCK_SIZE + r) * SIZE + bc * BLOCK_SIZE + c
        : r \in 0..(BLOCK_SIZE - 1), c \in 0..(BLOCK_SIZE - 1)}
       : br \in 0..(SIZE \div BLOCK_SIZE - 1), bc \in 0..(SIZE \div BLOCK_SIZE - 1)}
Units == Rows \cup Cols \cup Blocks

(* every row, column and block holds each letter exactly once *)
IsSolved(board) ==
    \A u \in Units : \A l \in Letters :
        Cardinality({p \in u : CellOf(board, p) = l}) = 1

(* no letter twice among the filled cells of a row, column or block *)
IsConsistent(board) ==
    \A u \in Units : \A p \in u, q \in u :
        (p # q /\ CellOf(board, p) # EMPTY) => CellOf(board, p) # CellOf(board, q)

Extends(full, board) ==
    \A p \in Cells : CellOf(board, p) # EMPTY => CellOf(full, p) = CellOf(board, p)

ClueCount(board) == Cardinality({p \in Cells : CellOf(board, p) # EMPTY})

(* The solved grids, built row by row from the permutations of the letters *)
RowPerms == {s \in [Idx -> Letters] : \A a \in Idx, b \in Idx : a # b => s[a] # s[b]}
Bands ==
    {t \in RowPerms \X RowPerms :
        /\ {t[1][0], t[1][1]} \cap {t[2][0], t[2][1]} = {}
        /\ {t[1][2], t[1][3]} \cap {t[2][2], t[2][3]} = {}}
SolvedGrids ==
    {[r \in Idx |-> IF r < 2 THEN top[r + 1] ELSE bot[r - 1]]
       : <<top, bot>> \in
           {tb \in Bands \X Bands :
               \A c \in Idx : {tb[1][1][c], tb[1][2][c]} \cap {tb[2][1][c], tb[2][2][c]} = {}}}

Completions(board) == {g \in SolvedGrids : Extends(g, board)}

(***************************************************************************)
(* isValid(board, row, col, val): the three scans with their early returns *)
(***************************************************************************)
isValidNoBlock(board, row, col, val) ==
    /\ ~\E c \in 0..(SIZE - 1) : board[row][c] = val /\ c # col
    /\ ~\E r \in 0..(SIZE - 1) : board[r][col] = val /\ r # row

isValidSelf(board, row, col, val) ==
    LET startRow == (row \div BLOCK_SIZE) * BLOCK_SIZE
        startCol == (col \div BLOCK_SIZE) * BLOCK_SIZE
    IN  /\ ~\E c \in 0..(SIZE - 1) : board[row][c] = val
        /\ ~\E r \in 0..(SIZE - 1) : board[r][col] = val /\ r # row
        /\ ~\E r \in 0..(BLOCK_SIZE - 1), c \in 0..(BLOCK_SIZE - 1) :
               /\ board[startRow + r][startCol + c] = val
               /\ (startRow + r # row \/ startCol + c # col)

isValid(board, row, col, val) ==
    LET startRow == (row \div BLOCK_SIZE) * BLOCK_SIZE
        startCol == (col \div BLOCK_SIZE) * BLOCK_SIZE
    IN  /\ ~\E c \in 0..(SIZE - 1) : board[row][c] = val /\ c # col
        /\ ~\E r \in 0..(SIZE - 1) : board[r][col] = val /\ r # row
        /\ ~\E r \in 0..(BLOCK_SIZE - 1), c \in 0..(BLOCK_SIZE - 1) :
               /\ board[startRow + r][startCol + c] = val
               /\ (startRow + r # row \/ startCol + c # col)

(* The nested scan "for row, for col: if (board[row][col] === EMPTY)":     *)
(* the first empty cell in row-major order, as row * SIZE + col; NONE when *)
(* the scan runs to its end.                                               *)
FirstEmpty(board) ==
    LET empties == {p \in Cells : board[p \div SIZE][p % SIZE] = EMPTY}
    IN  IF empties = {} THEN NONE
        ELSE CHOOSE p \in empties : \A q \in empties : p <= q

(***************************************************************************)
(* The Fisher-Yates loop: for i = length-1 down to 1, j = floor(random *   *)
(* (i + 1)) is any of 0..i, and a[i], a[j] are swapped.  Indices are the   *)
(* source's (0-based); the result is the set of arrays the loop can leave. *)
(***************************************************************************)
Swap(a, i, j) == [a EXCEPT ![i + 1] = a[j + 1], ![j + 1] = a[i + 1]]

RECURSIVE ShuffleFrom(_, _)
ShuffleFrom(a, i) ==
    IF i > 0 THEN UNION {ShuffleFrom(Swap(a, i, j), i - 1) : j \in 0..i}
    ELSE {a}

Shuffle(a) == ShuffleFrom(a, Len(a) - 1)

ShuffledLetters == Shuffle(LETTERS)

(* let candidates = [...LETTERS]; shuffled when randomized *)
CandidatesShort(randomized) ==
    IF randomized THEN {SubSeq(c, 1, Len(c) - 1) : c \in ShuffledLetters}
    ELSE {SubSeq(LETTERS, 1, Len(LETTERS) - 1)}
Candidates(randomized) == IF randomized THEN ShuffledLetters ELSE {LETTERS}

(***************************************************************************)
(* solve(board, randomized).  The value is the set of outcomes the call    *)
(* can have over all shuffle outcomes, each outcome a record               *)
(*   ret    : the value returned,                                          *)
(*   board  : the board as the call leaves it,                             *)
(*   undone : history flag, TRUE iff every call of this execution (this    *)
(*            one and the calls below it) that returned false left the     *)
(*            board as it was when that call was entered.                  *)
(* memo[k] holds the outcomes of the recursive call for LETTERS[k] placed  *)
(* on the board as it was on entry: solve's outcomes depend on its         *)
(* arguments only, so every candidate order reuses them.                   *)
(***************************************************************************)
LetterIndex(val) == CHOOSE k \in 1..Len(LETTERS) : LETTERS[k] = val

RECURSIVE solve(_, _), tryCandidates(_, _, _, _, _, _, _, _, _)

(* board[row][col] = EMPTY after a recursive call that returned false *)
UndoSkipped(board, row, col) == board
Undo(board, row, col) == Place(board, row, col, EMPTY)

(* this.solve(board, randomized) with val placed *)
Recurse(entry, memo, board, row, col, val, randomized) ==
    IF randomized /\ board = entry
    THEN memo[LetterIndex(val)]
    ELSE solve(Place(board, row, col, val), randomized)

(* The loop "for (const val of candidates)" from its i-th candidate on, with *)
(* the board as it is now; clean is the history flag accumulated so far.    *)
tryCandidates(entry, memo, board, row, col, candidates, i, randomized, clean) ==
    IF i > Len(candidates)
    THEN {[ret |-> FALSE, board |-> board,
           undone |-> clean /\ board = entry]}
    ELSE LET val == candidates[i] IN
         IF isValid(board, row, col, val)
         THEN UNION {
                IF o.ret
                THEN {[ret |-> TRUE, board |-> o.board,
                       undone |-> clean /\ o.undone]}
                ELSE tryCandidates(entry, memo,
                                   Undo(o.board, row, col),
                                   row, col, candidates, i + 1, randomized,
                                   clean /\ o.undone)
                : o \in Recurse(entry, memo, board, row, col, val, randomized)}
         ELSE tryCandidates(entry, memo, board, row, col, candidates, i + 1,
                            randomized, clean)

(* The results of the recursive calls, by letter, on the board as entered;  *)
(* <<>> when the scan finds no empty cell.  Not randomized, the candidates *)
(* are gone through once and nothing is kept.                              *)
Memo(board, p, randomized) ==
    IF p = NONE THEN <<>>
    ELSE [k \in 1..Len(LETTERS) |->
            IF randomized /\ isValid(board, p \div SIZE, p % SIZE, LETTERS[k])
            THEN solve(Place(board, p \div SIZE, p % SIZE, LETTERS[k]), randomized)
            ELSE {}]

(* The body of solve, the scan having stopped at cell p or run to its end  *)
(* (memo is then <<>>): "return true", or the candidates in each order.    *)
solveAt(board, p, randomized, memo) ==
    IF memo = <<>>
    THEN {[ret |-> TRUE, board |-> board, undone |-> TRUE]}
    ELSE UNION {tryCandidates(board, memo, board, p \div SIZE, p % SIZE,
                              candidates, 1, randomized, TRUE)
                : candidates \in Candidates(randomized)}

solve(board, randomized) ==
    solveAt(board, FirstEmpty(board), randomized,
            Memo(board, FirstEmpty(board), randomized))

(***************************************************************************)
(* countSolutions(board): solveInternal on a copy, with the counter.       *)
(* The state threaded through the recursion is the pair (currentBoard,     *)
(* count): the board the frames share and the closure's counter.           *)
(***************************************************************************)
RECURSIVE solveInternal(_, _), countLoop(_, _, _, _)

(* if (count > 1) return *)
PrunedLate(count) == count > 2
Pruned(count) == count > 1

countLoop(currentBoard, count, p, k) ==
    IF k > Len(LETTERS)
    THEN [board |-> currentBoard, count |-> count]
    ELSE LET row == p \div SIZE
             col == p % SIZE
             val == LETTERS[k]
         IN  IF isValid(currentBoard, row, col, val)
             THEN LET r == solveInternal(Place(currentBoard, row, col, val), count)
                      b == Place(r.board, row, col, EMPTY)
                  IN  IF Pruned(r.count)
                      THEN [board |-> b, count |-> r.count]
                      ELSE countLoop(b, r.count, p, k + 1)
             ELSE countLoop(currentBoard, count, p, k + 1)

solveInternal(currentBoard, count) ==
    LET p == FirstEmpty(currentBoard) IN
    IF p = NONE
    THEN [board |-> currentBoard, count |-> count + 1]
    ELSE countLoop(currentBoard, count, p, 1)

countSolutions(board) == solveInternal(board, 0).count

(***************************************************************************)
(* generateFullBoard(): solve, randomized, on a board of EMPTY cells; the  *)
(* board is returned whatever solve returned.  One record per outcome.     *)
(***************************************************************************)
generateFullBoard ==
    {[board |-> o.board, ret |-> o.ret] : o \in solve(EmptyBoard, TRUE)}

(* JSON.parse(JSON.stringify(board)): a new array holding the same cells.  *)
(* fresh tells that writes to the result do not reach the argument.        *)
SameArray(board) == [board |-> board, fresh |-> FALSE]
DeepCopy(board) == [board |-> board, fresh |-> TRUE]

SameSolution(board) == [board |-> board, fresh |-> FALSE]
CopySolution(board) == [board |-> board, fresh |-> TRUE]

(* the default parameters of generatePuzzle *)
minClues == 6
maxClues == 8

(* Math.floor(Math.random() * (maxClues - minClues + 1)) + minClues *)
ClueDrawsLow == {d + minClues - 1 : d \in 0..(maxClues - minClues + 1)}
ClueDraws == {d + minClues : d \in 0..(maxClues - minClues)}

(* if (cellsToRemove <= 0) break *)
BreaksLate(cellsToRemove) == cellsToRemove < 0
LoopBreaks(cellsToRemove) == cellsToRemove <= 0

(* solutions !== 1 decides the restore; its negation keeps the hole *)
KeepsIfSolvable(solutions) == solutions >= 1
KeepsHole(solutions) == ~(solutions # 1)

(***************************************************************************)
(* Bounds of the model.                                                    *)
(***************************************************************************)
(* generatePuzzle goes on to dig only in the first MaxBoards boards that   *)
(* generateFullBoard can return, in the lexicographic order of their cells *)
(* (row-major, letters ordered as in LETTERS).                             *)
MaxBoards == 12
(* The shuffled visiting order of the positions is drawn as the loop goes: *)
(* the next position is one of the first PosChoices unvisited positions    *)
(* in row-major order.                                                     *)
PosChoices == 2
(* The grids handed to isValid, solve and countSolutions differ from the   *)
(* filled grid Example in the first InputCells cells of its even columns   *)
(* (row-major); the all-empty grid is one more input.                      *)
InputCells == 4

LexLess(a, b) ==
    \E p \in Cells :
        /\ LetterIndex(CellOf(a, p)) < LetterIndex(CellOf(b, p))
        /\ \A q \in 0..(p - 1) : CellOf(a, q) = CellOf(b, q)

FullBoards == {o.board : o \in generateFullBoard}

DugBoards ==
    {b \in FullBoards :
        Cardinality({a \in FullBoards : LexLess(a, b)}) < MaxBoards}

Example ==
    LET rows == << <<"H", "O", "L", "A">>, <<"L", "A", "H", "O">>,
                   <<"O", "H", "A", "L">>, <<"A", "L", "O", "H">> >>
    IN  [r \in Idx |-> [c \in Idx |-> rows[r + 1][c + 1]]]

VariedCells == {2 * i : i \in 0..(InputCells - 1)} \cap Cells

Inputs ==
    {[r \in Idx |-> [c \in Idx |->
         IF r * SIZE + c \in VariedCells THEN f[r * SIZE + c] ELSE Example[r][c]]]
       : f \in [VariedCells -> Letters \cup {EMPTY}]}
    \cup {EmptyBoard}

(***************************************************************************)
(* State.                                                                  *)
(*  generatePuzzle: gpc is its position; solution, puzzle, cellsToRemove   *)
(*  are its locals; visited is the set of positions the loop has taken     *)
(*  from the shuffled array; solved, generated, drawn and puzzleFresh      *)
(*  record the inner solve's return value, the board generateFullBoard     *)
(*  returned, the clue count drawn, and that puzzle is a copy.             *)
(*  A caller of isValid, solve or countSolutions: grid is its board,       *)
(*  before the board when the call was made, op/args the call, ret its     *)
(*  return value, undone the history flag of solve.                        *)
(*  countSolutions: cpc is its position, currentBoard the board            *)
(*  solveInternal works on, private tells that it is a copy, count the     *)
(*  counter, stack the frames of solveInternal (cell p, candidate k),      *)
(*  returned the value countSolutions returned.                            *)
(***************************************************************************)
VARIABLES gpc, solution, solved, generated, puzzle, puzzleFresh,
          cellsToRemove, drawn, visited,
          grid, before, op, args, ret, undone,
          cpc, currentBoard, private, count, stack, returned

genVars == <<gpc, solution, solved, generated, puzzle, puzzleFresh,
             cellsToRemove, drawn, visited>>
callVars == <<grid, before, op, args, ret, undone>>
countVars == <<cpc, currentBoard, private, count, stack, returned>>
vars == <<genVars, callVars, countVars>>

GenIdle ==
    /\ gpc = "start" /\ solution = EmptyBoard /\ solved = FALSE
    /\ generated = EmptyBoard /\ puzzle = EmptyBoard /\ puzzleFresh = TRUE
    /\ cellsToRemove = 0 /\ drawn = 0 /\ visited = {}
CallIdle ==
    /\ before = grid /\ op = "none" /\ args = <<>> /\ ret = FALSE /\ undone = TRUE
CountIdle ==
    /\ cpc = "idle" /\ currentBoard = EmptyBoard /\ private = TRUE
    /\ count = 0 /\ stack = <<>> /\ returned = 0

(***************************************************************************)
(* generatePuzzle, one action per statement group.                         *)
(***************************************************************************)
(* const solution = this.generateFullBoard() *)
GenerateFullBoard ==
    /\ gpc = "start"
    /\ \E o \in generateFullBoard :
          /\ solution' = o.board
          /\ generated' = o.board
          /\ solved' = o.ret
    /\ gpc' = "board"
    /\ UNCHANGED <<puzzle, puzzleFresh, cellsToRemove, drawn, visited>>
    /\ UNCHANGED <<callVars, countVars>>

(* the copy, the draw of the clue count, the positions and their shuffle *)
BeginDig ==
    /\ gpc = "board"
    /\ solution \in DugBoards
    /\ LET copy == CopySolution(solution) IN
          /\ puzzle' = copy.board
          /\ puzzleFresh' = copy.fresh
    /\ \E k \in ClueDraws :
          /\ drawn' = k
          /\ cellsToRemove' = (SIZE * SIZE) - k
    /\ visited' = {}
    /\ gpc' = "dig"
    /\ UNCHANGED <<solution, solved, generated>>
    /\ UNCHANGED <<callVars, countVars>>

(* the positions the shuffled array can hold next *)
NextPositions ==
    LET left == Cells \ visited
    IN  {p \in left : Cardinality({q \in left : q < p}) < PosChoices}

(* one iteration of "for (const [r, c] of positions)" that does not break *)
DigStep(pos) ==
    /\ gpc = "dig"
    /\ ~LoopBreaks(cellsToRemove)
    /\ pos \in NextPositions
    /\ LET r == pos \div SIZE
           c == pos % SIZE
           backup == puzzle[r][c]
           blanked == Place(puzzle, r, c, EMPTY)
       IN  \E solutions \in {countSolutions(blanked)} :
           \E after \in {IF KeepsHole(solutions) THEN blanked
                         ELSE Place(blanked, r, c, backup)} :
             /\ puzzle' = after
             /\ cellsToRemove' = IF KeepsHole(solutions) THEN cellsToRemove - 1
                                 ELSE cellsToRemove
             /\ solution' = IF puzzleFresh THEN solution ELSE after
    /\ visited' = visited \cup {pos}
    /\ UNCHANGED <<gpc, solved, generated, puzzleFresh, drawn>>
    /\ UNCHANGED <<callVars, countVars>>

(* the break, or the end of the positions: return { puzzle, solution } *)
Return ==
    /\ gpc = "dig"
    /\ LoopBreaks(cellsToRemove) \/ visited = Cells
    /\ gpc' = "done"
    /\ UNCHANGED <<solution, solved, generated, puzzle, puzzleFresh,
                   cellsToRemove, drawn, visited>>
    /\ UNCHANGED <<callVars, countVars>>

Init ==
    /\ GenIdle
    /\ grid = EmptyBoard /\ CallIdle
    /\ CountIdle

Next ==
    \/ GenerateFullBoard
    \/ BeginDig
    \/ \E pos \in Cells : DigStep(pos)
    \/ Return

Spec == Init /\ [][Next]_vars


(***************************************************************************)
(* A caller with a grid of its own calls isValid or solve once.            *)
(***************************************************************************)
CallIsValid(row, col, val) ==
    /\ op = "none"
    /\ op' = "isValid"
    /\ args' = <<row, col, val>>
    /\ before' = grid
    /\ ret' = isValid(grid, row, col, val)
    /\ UNCHANGED <<grid, undone>>
    /\ UNCHANGED <<genVars, countVars>>

CallSolve(randomized) ==
    /\ op = "none"
    /\ op' = "solve"
    /\ args' = <<randomized>>
    /\ before' = grid
    /\ \E o \in solve(grid, randomized) :
          /\ grid' = o.board
          /\ ret' = o.ret
          /\ undone' = o.undone
    /\ UNCHANGED <<genVars, countVars>>

InitCalls ==
    /\ GenIdle
    /\ grid \in Inputs /\ CallIdle
    /\ CountIdle

NextCalls ==
    \/ \E row \in Idx, col \in Idx, val \in Letters : CallIsValid(row, col, val)
    \/ \E randomized \in BOOLEAN : CallSolve(randomized)

SpecCalls == InitCalls /\ [][NextCalls]_vars

(***************************************************************************)
(* countSolutions(grid), one action per step of solveInternal.             *)
(***************************************************************************)
(* currentBoard[row][col] = val; the write reaches the caller's grid when  *)
(* currentBoard is not a copy of it                                        *)
WriteCell(row, col, val) ==
    /\ currentBoard' = Place(currentBoard, row, col, val)
    /\ grid' = IF private THEN grid ELSE Place(currentBoard, row, col, val)

Top == stack[Len(stack)]
Pop == SubSeq(stack, 1, Len(stack) - 1)
Advance == [stack EXCEPT ![Len(stack)].k = @ + 1]

(* let count = 0; solveInternal(JSON.parse(JSON.stringify(board))) *)
CountCall ==
    /\ cpc = "idle"
    /\ before' = grid
    /\ LET copy == DeepCopy(grid) IN
          /\ currentBoard' = copy.board
          /\ private' = copy.fresh
    /\ count' = 0
    /\ stack' = <<>>
    /\ cpc' = "enter"
    /\ UNCHANGED <<grid, op, args, ret, undone, returned>>
    /\ UNCHANGED genVars

(* solveInternal is entered: the scan for an empty cell; count++ if none *)
Enter ==
    /\ cpc = "enter"
    /\ LET p == FirstEmpty(currentBoard) IN
          IF p = NONE
          THEN /\ count' = count + 1
               /\ cpc' = "back"
               /\ UNCHANGED stack
          ELSE /\ stack' = Append(stack, [p |-> p, k |-> 1])
               /\ cpc' = "loop"
               /\ UNCHANGED count
    /\ UNCHANGED <<grid, before, op, args, ret, undone,
                   currentBoard, private, returned>>
    /\ UNCHANGED genVars

(* the next val of LETTERS: placed and recursed on if valid, else skipped *)
TryCandidate ==
    /\ cpc = "loop"
    /\ Top.k <= Len(LETTERS)
    /\ LET row == Top.p \div SIZE
           col == Top.p % SIZE
           val == LETTERS[Top.k]
       IN  IF isValid(currentBoard, row, col, val)
           THEN /\ WriteCell(row, col, val)
                /\ cpc' = "enter"
                /\ UNCHANGED stack
           ELSE /\ stack' = Advance
                /\ UNCHANGED <<cpc, currentBoard, grid>>
    /\ UNCHANGED <<before, op, args, ret, undone, private, count, returned>>
    /\ UNCHANGED genVars

(* the return after the loop over LETTERS *)
LoopEnd ==
    /\ cpc = "loop"
    /\ Top.k > Len(LETTERS)
    /\ stack' = Pop
    /\ cpc' = "back"
    /\ UNCHANGED <<grid, before, op, args, ret, undone,
                   currentBoard, private, count, returned>>
    /\ UNCHANGED genVars

(* a recursive call has returned: the reset, then the pruning test *)
AfterCall ==
    /\ cpc = "back"
    /\ stack # <<>>
    /\ WriteCell(Top.p \div SIZE, Top.p % SIZE, EMPTY)
    /\ IF Pruned(count)
       THEN /\ stack' = Pop
            /\ UNCHANGED cpc
       ELSE /\ stack' = Advance
            /\ cpc' = "loop"
    /\ UNCHANGED <<before, op, args, ret, undone, private, count, returned>>
    /\ UNCHANGED genVars

(* the outermost solveInternal has returned: return count *)
Finish ==
    /\ cpc = "back"
    /\ stack = <<>>
    /\ returned' = count
    /\ cpc' = "done"
    /\ UNCHANGED <<grid, before, op, args, ret, undone,
                   currentBoard, private, count, stack>>
    /\ UNCHANGED genVars

InitCount ==
    /\ GenIdle
    /\ grid \in Inputs /\ CallIdle
    /\ CountIdle

NextCount ==
    \/ CountCall
    \/ Enter
    \/ TryCandidate
    \/ LoopEnd
    \/ AfterCall
    \/ Finish

SpecCount == InitCount /\ [][NextCount]_vars

(* the recursive operator and the step machine return the same count *)
CountAgrees == cpc = "done" => returned = countSolutions(before)

(***************************************************************************)
(* The claims.                                                             *)
(***************************************************************************)
NoEmptyCell(board) == \A p \in Cells : CellOf(board, p) \in Letters

(* C1: every pair {puzzle, solution} generatePuzzle returns with the       *)
(* default range has countSolutions(puzzle) = 1, and solve on a copy of    *)
(* puzzle, not randomized, returns true and leaves the copy equal to       *)
(* solution.                                                               *)
C1_PuzzleHasItsSolutionOnly ==
    gpc = "done" =>
        /\ countSolutions(puzzle) = 1
        /\ solve(puzzle, FALSE) # {}
        /\ \A o \in solve(puzzle, FALSE) : o.ret = TRUE /\ o.board = solution

C1_Witness ==
    /\ gpc = "done"
    /\ ClueCount(puzzle) = drawn
    /\ drawn = minClues

(* C2: whatever the shuffles, the solve call inside generateFullBoard      *)
(* returns true and the board returned has no empty cell and holds each    *)
(* letter exactly once in every row, column and 2x2 block.                 *)
C2_FullBoardIsSolved ==
    gpc # "start" =>
        /\ solved = TRUE
        /\ NoEmptyCell(generated)
        /\ IsSolved(generated)

C2_Witness ==
    /\ gpc = "board"
    /\ generated # Example
    /\ generated[0][0] = "A"

(* C3: after every iteration of the hole-digging loop and at return, each  *)
(* cell of puzzle is empty or equal to the cell of solution at the same    *)
(* position, and solution is still the complete board generateFullBoard    *)
(* returned.                                                               *)
C3_PuzzleWithinSolution ==
    gpc \in {"dig", "done"} =>
        /\ \A p \in Cells : CellOf(puzzle, p) \in {EMPTY, CellOf(solution, p)}
        /\ solution = generated
        /\ NoEmptyCell(solution)

C3_Witness ==
    /\ gpc = "done"
    /\ ClueCount(puzzle) < SIZE * SIZE
    /\ \E p \in visited : CellOf(puzzle, p) # EMPTY

(* C4: at return, with k the clue count drawn in 6..8, the puzzle has at   *)
(* least k non-empty cells; exactly k, hence between 6 and 8, when the     *)
(* loop stopped because the removal counter reached zero; and more than k  *)
(* only when all 16 positions were attempted with removals outstanding.    *)
C4_ClueCount ==
    gpc = "done" =>
        /\ drawn \in 6..8
        /\ ClueCount(puzzle) >= drawn
        /\ cellsToRemove <= 0 =>
              ClueCount(puzzle) = drawn /\ ClueCount(puzzle) \in 6..8
        /\ ClueCount(puzzle) > drawn =>
              visited = Cells /\ cellsToRemove > 0

C4_Witness ==
    /\ gpc = "done"
    /\ cellsToRemove = 0
    /\ visited # Cells
    /\ ClueCount(puzzle) = maxClues

(* C5: for every grid of empty cells and letters, conflicting and filled   *)
(* grids included, countSolutions returns 0 when the grid has no           *)
(* completion, 1 when it has exactly one, and at least 2 when it has two   *)
(* or more.                                                                *)
C5_CountClassifiesCompletions ==
    cpc = "done" =>
        LET n == Cardinality(Completions(before))
        IN  /\ n = 0 => returned = 0
            /\ n = 1 => returned = 1
            /\ n >= 2 => returned >= 2

(* C6: countSolutions never changes the grid it is given: from the call    *)
(* to the return, whatever is returned, the caller's grid is as it was     *)
(* when the call was made.                                                 *)
C6_CallerGridUntouched ==
    cpc # "idle" => grid = before

C6_Witness ==
    /\ cpc = "done"
    /\ returned >= 2
    /\ grid # EmptyBoard
    /\ ~IsConsistent(grid)

(* C7: isValid(grid, row, col, v) is false exactly when v is in a cell     *)
(* other than (row, col) of the same row, column or block; the content of  *)
(* (row, col) does not affect it; the grid is unchanged; on the grid       *)
(* Example it is true for H at (0,0) and false for H at (0,1).             *)
Peers(row, col) ==
    {p \in Cells \ {row * SIZE + col} :
        \E u \in Units : p \in u /\ (row * SIZE + col) \in u}

C7_IsValidContract ==
    op = "isValid" =>
        LET row == args[1]
            col == args[2]
            val == args[3]
        IN  /\ ret = (~\E p \in Peers(row, col) : CellOf(before, p) = val)
            /\ \A w \in Letters \cup {EMPTY} :
                   isValid(Place(before, row, col, w), row, col, val) = ret
            /\ grid = before
            /\ (before = Example /\ args = <<0, 0, "H">>) => ret = TRUE
            /\ (before = Example /\ args = <<0, 1, "H">>) => ret = FALSE

C7_Witness ==
    /\ op = "isValid"
    /\ before = Example
    /\ args = <<0, 1, "H">>
    /\ ret = FALSE

(* C8: on a grid whose filled cells hold no letter twice in a row, column  *)
(* or block, in both modes and under every shuffle, solve returns true iff *)
(* the grid has a completion; when it returns true the grid has no empty   *)
(* cell, is solved, and keeps every cell that was filled on entry.  On the *)
(* all-empty grid, not randomized, it returns true and leaves one and the  *)
(* same grid.                                                              *)
C8_SolveContract ==
    (op = "solve" /\ IsConsistent(before)) =>
        /\ ret = (Completions(before) # {})
        /\ ret => /\ NoEmptyCell(grid)
                  /\ IsSolved(grid)
                  /\ Extends(grid, before)
        /\ (before = EmptyBoard /\ args = <<FALSE>>) =>
              ret /\ grid = Example

C8_Witness ==
    /\ op = "solve"
    /\ args = <<TRUE>>
    /\ IsConsistent(before)
    /\ ret = FALSE
    /\ ClueCount(before) < SIZE * SIZE - 1

(* C9: whenever a call of solve, at any depth and in either mode, returns  *)
(* false, the grid is cell for cell as it was when that call was entered.  *)
C9_FalseLeavesGridAsEntered ==
    op = "solve" =>
        /\ undone
        /\ ret = FALSE => grid = before

C9_Witness ==
    /\ op = "solve"
    /\ ret = FALSE
    /\ LET p == FirstEmpty(before)
       IN  /\ p # NONE
           /\ \E v \in Letters : isValid(before, p \div SIZE, p % SIZE, v)

(* A step taken with the counter above 1: the counter stays, no cell gets  *)
(* a letter, and the step is the reset and return of a pending frame or    *)
(* the final return.                                                       *)
C10_Abandoned ==
    count > 1 =>
        /\ count' = count
        /\ \A p \in Cells :
              CellOf(currentBoard', p) \in {CellOf(currentBoard, p), EMPTY}
        /\ cpc' \in {"back", "done"}
        /\ Len(stack') <= Len(stack)

(* C10: once the counter of countSolutions is greater than 1, no symbol is *)
(* placed in any cell and the counter is not incremented again: each step  *)
(* is the reset and return of a pending frame, or the final return; the    *)
(* value returned is never greater than 2.                                 *)
C10_PrunedSearchStops ==
    [][C10_Abandoned]_vars /\ [](cpc = "done" => returned <= 2)

C10_Witness ==
    /\ cpc = "back"
    /\ count = 2
    /\ Len(stack) > 1

(* C11: with the default range 6..8 the hole-digging loop always reaches   *)
(* its removal target: whatever the solution, the clue count drawn and the *)
(* order of the positions, the loop is never out of positions with         *)
(* removals outstanding, and the puzzle returned never has more clues than *)
(* were drawn.                                                             *)
C11_TargetAlwaysReached ==
    /\ (gpc \in {"dig", "done"} /\ visited = Cells) => cellsToRemove = 0
    /\ gpc = "done" =>
          /\ cellsToRemove = 0
          /\ ~(ClueCount(puzzle) > drawn)

C11_Witness ==
    /\ gpc = "done"
    /\ visited = Cells
    /\ drawn = minClues
    /\ cellsToRemove = 0
    /\ \E p \in Cells : CellOf(puzzle, p) # EMPTY

=============================================================================
